---------------------------- MODULE Spec2Model ----------------------------
(***************************************************************************)
(* State-machine model of the streaming chat client of ai-lingo:          *)
(*   frontend/src/hooks/useAGUIChat.ts  (the hook: session, topic stream,  *)
(*                                       message stream, reset)            *)
(*   frontend/src/components/Chat.tsx   (topic pick and submit handler)    *)
(*                                                                         *)
(* JavaScript runs the hook single-threaded: the code between two awaits   *)
(* is one atomic step.  Each action below is one such step: a command up   *)
(* to its first await, or the continuation of one await of one operation.  *)
(* Text is modelled character by character with TLA+ strings.              *)
(***************************************************************************)
EXTENDS Integers, Sequences, FiniteSets, TLC

(***************************************************************************)
(* Bounds of the model.                                                    *)
(***************************************************************************)
\* number of asynchronous operations (startSession, startTopicChat,
\* sendMessage past its guard) issued in one behaviour
MaxOps == 3
\* number of streaming operations, issued one after the other, in the
\* behaviours in which the transport cuts the response body at arbitrary
\* characters
MaxDecodeOps == 1

(***************************************************************************)
(* Values.                                                                 *)
(***************************************************************************)
\* null of a string-typed state (sessionId, variant, error)
Null == "<null>"
\* null of the Topic-typed state (topic, selectedTopic)
NullTopic == [null |-> TRUE]
\* undefined property of a decoded JSON object
Undef == "<undefined>"

Variants == {"UK"}
SessionIds == {"s1"}
Texts == {"hi"}
Drafts == {" hi ", " "}

(***************************************************************************)
(* Strings: the JavaScript string primitives the code uses.                *)
(***************************************************************************)
Min(S) == CHOOSE x \in S : \A y \in S : x <= y
Max(S) == CHOOSE x \in S : \A y \in S : x >= y

CharAt(s, i) == SubSeq(s, i, i)

\* s.slice(n): the text after the first n characters
Slice(s, n) == SubSeq(s, n + 1, Len(s))

\* s.startsWith(p)
StartsWith(s, p) == Len(s) >= Len(p) /\ SubSeq(s, 1, Len(p)) = p

\* s.split('\n'): always at least one element; the last one is the text
\* after the last newline
RECURSIVE SplitLines(_)
SplitLines(s) ==
  LET nl == {i \in 1..Len(s) : CharAt(s, i) = "\n"} IN
  IF nl = {} THEN <<s>>
  ELSE <<SubSeq(s, 1, Min(nl) - 1)>> \o SplitLines(Slice(s, Min(nl)))

IsSpace(c) == c \in {" ", "\n", "\t"}

\* s.trim()
Trim(s) ==
  LET keep == {i \in 1..Len(s) : ~IsSpace(CharAt(s, i))} IN
  IF keep = {} THEN "" ELSE SubSeq(s, Min(keep), Max(keep))

Front(q) == SubSeq(q, 1, Len(q) - 1)
Last(q) == q[Len(q)]

IsPrefix(p, q) == Len(p) <= Len(q) /\ SubSeq(q, 1, Len(p)) = p


(***************************************************************************)
(* The wire: line-framed JSON documents.  JSON.parse is a library          *)
(* function; it is modelled on the documents below and throws a            *)
(* SyntaxError on every other text, in particular on every proper prefix   *)
(* of a document.                                                          *)
(***************************************************************************)
NoTopicField == [kind |-> "undefined", headline |-> "", source |-> "", url |-> ""]
TopicString(h) == [kind |-> "string", headline |-> h, source |-> "", url |-> ""]
TopicObject(h, s, u) == [kind |-> "object", headline |-> h, source |-> s, url |-> u]

\* a decoded object: its type, content and topic properties
Obj(t, c, tp) == [type |-> t, content |-> c, topic |-> tp]

Quote(s) == "\"" \o s \o "\""

JChunk(c) == "{\"type\":\"chunk\",\"content\":" \o Quote(c) \o "}"
JThought(c) == "{\"type\":\"thought\",\"content\":" \o Quote(c) \o "}"
JDone == "{\"type\":\"done\"}"
JTopicString(h) == "{\"topic\":" \o Quote(h) \o "}"
JTopicObject(h, s, u) ==
  "{\"topic\":{\"headline\":" \o Quote(h) \o ",\"source\":" \o Quote(s)
     \o ",\"url\":" \o Quote(u) \o "}}"
\* a structured topic without source (normalizeTopic reads it as '')
JTopicNoSource(h, u) ==
  "{\"topic\":{\"headline\":" \o Quote(h) \o ",\"url\":" \o Quote(u) \o "}}"

\* a structured topic without headline
JTopicNoHeadline(u) == "{\"topic\":{\"url\":" \o Quote(u) \o "}}"

\* frames that violate the protocol: a chunk without content, an unknown type
JChunkNoContent == "{\"type\":\"chunk\"}"
JPing == "{\"type\":\"ping\"}"
\* a payload that is not JSON
Malformed == "{oops"

JsonDocs ==
  {[text |-> JChunk(c), value |-> Obj("chunk", c, NoTopicField)] :
      c \in {"A", "B", "[[a::", "b]]"}}
  \cup {[text |-> JThought("t"), value |-> Obj("thought", "t", NoTopicField)]}
  \cup {[text |-> JDone, value |-> Obj("done", Undef, NoTopicField)]}
  \cup {[text |-> JChunkNoContent, value |-> Obj("chunk", Undef, NoTopicField)]}
  \cup {[text |-> JPing, value |-> Obj("ping", Undef, NoTopicField)]}
  \cup {[text |-> JTopicString(h), value |-> Obj(Undef, Undef, TopicString(h))] :
           h \in {"T1", "u1"}}
  \cup {[text |-> JTopicObject("T2", "BBC", "u2"),
         value |-> Obj(Undef, Undef, TopicObject("T2", "BBC", "u2"))]}
  \cup {[text |-> JTopicNoHeadline("u1"),
         value |-> Obj(Undef, Undef, TopicObject("", "", "u1"))]}
  \cup {[text |-> JTopicNoSource("A", u),
         value |-> Obj(Undef, Undef, TopicObject("A", "", u))] : u \in {"u1", "u2"}}

\* JSON.parse(text): the decoded object, or the SyntaxError
JSONParse(text) ==
  IF \E d \in JsonDocs : d.text = text
  THEN [ok |-> TRUE, value |-> (CHOOSE d \in JsonDocs : d.text = text).value]
  ELSE [ok |-> FALSE, value |-> Obj(Undef, Undef, NoTopicField)]

\* one frame on the wire
Frame(json) == "data: " \o json \o "\n"

\* The response bodies the backend sends on /chat and on /start_chat: a few
\* short ones for the behaviours with overlapping operations, more for the
\* behaviours that look at the decoder.
MessageBodies(decode) ==
  IF decode
  THEN { Frame(JChunk("A")) \o Frame(JDone),
         Frame(JThought("t")) \o Frame(JChunk("A")) \o Frame(JChunk("B")) \o Frame(JDone),
         Frame(JChunk("B")),
         "",
         \* the only line has no newline
         "data: " \o JChunk("A"),
         \* a line that is not JSON, then a turn
         Frame(Malformed) \o Frame(JChunk("A")) \o Frame(JDone),
         \* frames outside the protocol
         Frame(JPing) \o Frame(JChunkNoContent),
         \* one marker [[a::b]] delivered in two chunks
         Frame(JChunk("[[a::")) \o Frame(JChunk("b]]")) \o Frame(JDone),
         \* a done frame before any chunk, then text that no done frame ends
         Frame(JDone) \o Frame(JChunk("B")) }
  ELSE { Frame(JChunk("A")) \o Frame(JDone),
         Frame(JChunk("B")),
         "" }
TopicBodies(decode) ==
  IF decode
  THEN { Frame(JTopicString("T1")) \o Frame(JTopicObject("T2", "BBC", "u2")),
         \* the only line has no newline
         "data: " \o JTopicString("T1"),
         \* a topic, the same headline under another url, then a bare
         \* headline that reads like the first topic's url
         Frame(JTopicNoSource("A", "u1")) \o Frame(JTopicNoSource("A", "u2"))
           \o Frame(JTopicString("u1")),
         \* two topics, then the first one again
         Frame(JTopicString("T1")) \o Frame(JTopicString("u1"))
           \o Frame(JTopicString("T1")),
         \* a frame without topic, a topic without headline, then a topic
         Frame(JPing) \o Frame(JTopicNoHeadline("u1")) \o Frame(JTopicString("T1")) }
  ELSE { Frame(JTopicString("T1")) }

\* what an await can throw: an Error with a name and a message
AbortError == [isError |-> TRUE, name |-> "AbortError", message |-> "The operation was aborted."]
NetworkError == [isError |-> TRUE, name |-> "TypeError", message |-> "Failed to fetch"]
HttpError(status) == [isError |-> TRUE, name |-> "Error", message |-> "HTTP " \o status]
NoBodyError == [isError |-> TRUE, name |-> "Error", message |-> "No response body"]
AxiosError == [isError |-> TRUE, name |-> "AxiosError", message |-> "Network Error"]

(***************************************************************************)
(* Pure functions of the hook.                                             *)
(***************************************************************************)
Topic(h, s, u) == [headline |-> h, source |-> s, url |-> u]

\* normalizeTopic(rawTopic): a Topic, or null when the value is falsy or has
\* no non-empty headline
normalizeTopic(raw) ==
  CASE raw.kind = "undefined" -> NullTopic
    [] raw.kind = "string" ->
         IF raw.headline = "" THEN NullTopic ELSE Topic(raw.headline, "", "")
    [] raw.kind = "object" ->
         IF raw.headline = "" THEN NullTopic
         ELSE Topic(raw.headline, raw.source, raw.url)

\* `if (data.topic)`: the property is there and is not the empty string
TopicTruthy(raw) ==
  raw.kind = "object" \/ (raw.kind = "string" /\ raw.headline # "")

\* mutant: a new topic goes to the front of the list
setTopicsUpdaterFront(prev, t) ==
  IF \E i \in 1..Len(prev) : prev[i].url # "" /\ prev[i].url = t.url THEN prev
  ELSE IF \E i \in 1..Len(prev) : prev[i].headline = t.headline THEN prev
  ELSE <<t>> \o prev

\* the dedup of setTopics: an equal non-empty url, or an equal headline
setTopicsUpdater(prev, t) ==
  IF \E i \in 1..Len(prev) : prev[i].url # "" /\ prev[i].url = t.url THEN prev
  ELSE IF \E i \in 1..Len(prev) : prev[i].headline = t.headline THEN prev
  ELSE Append(prev, t)

\* One match of /\[\[([^\]]+)::([^\]]+)\]\]/ that starts at p, or <<>>.
\* Both groups exclude ']', so the match ends at the first ']' after the
\* opening brackets, which must begin "]]"; group 1 is greedy, so the split
\* is at the last "::" that leaves both groups non-empty.
MatchAt(text, p) ==
  LET n == Len(text)
      close == {q \in (p + 2)..n : CharAt(text, q) = "]"}
  IN IF p + 1 > n \/ SubSeq(text, p, p + 1) # "[[" \/ close = {} THEN <<>>
     ELSE LET q == Min(close)
              cuts == {j \in (p + 3)..(q - 3) : SubSeq(text, j, j + 1) = "::"}
          IN IF q + 1 > n \/ CharAt(text, q + 1) # "]" \/ cuts = {} THEN <<>>
             ELSE LET j == Max(cuts)
                  IN << [phrase |-> Trim(SubSeq(text, p + 2, j - 1)),
                         meaning |-> Trim(SubSeq(text, j + 2, q - 1)),
                         next |-> q + 2] >>

\* the exec loop of extractExpressions, from position `from` on
RECURSIVE ExtractFrom(_, _)
ExtractFrom(text, from) ==
  LET starts == {p \in from..Len(text) : MatchAt(text, p) # <<>>} IN
  IF starts = {} THEN <<>>
  ELSE LET m == MatchAt(text, Min(starts))[1]
       IN <<[phrase |-> m.phrase, meaning |-> m.meaning]>>
            \o ExtractFrom(text, m.next)

extractExpressions(text) == ExtractFrom(text, 1)

(***************************************************************************)
(* ExpressionText.tsx: the markup parser.                                  *)
(***************************************************************************)
\* a text segment and an expression segment (ParsedSegment)
TextSegment(content) == [type |-> "text", content |-> content]
ExpressionSegment(phrase, meaning) ==
  [type |-> "expression", content |-> phrase,
   expression |-> [phrase |-> phrase, meaning |-> meaning]]

\* mutant: the groups are reported as matched, untrimmed
ParseMatchAtUntrimmed(text, p) ==
  LET n == Len(text)
      close == {q \in (p + 2)..n : CharAt(text, q) = "]"}
  IN IF p + 1 > n \/ SubSeq(text, p, p + 1) # "[[" \/ close = {} THEN <<>>
     ELSE LET q == Min(close)
              cuts == {j \in (p + 3)..(q - 3) : SubSeq(text, j, j + 1) = "::"}
          IN IF q + 1 > n \/ CharAt(text, q + 1) # "]" \/ cuts = {} THEN <<>>
             ELSE LET j == Min(cuts)
                  IN << [index |-> p,
                         phrase |-> SubSeq(text, p + 2, j - 1),
                         meaning |-> SubSeq(text, j + 2, q - 1),
                         lastIndex |-> q + 2] >>

\* /\[\[([^\]]+?)::([^\]]+?)\]\]/ tried at position p (1-based): <<>> when it
\* does not match there, else the match: its index, the two trimmed groups
\* and the position after it (lastIndex).  Neither group holds a "]", so the
\* first "]" after the opening brackets must open the closing ones; the phrase
\* is lazy, so it ends at the first "::" that leaves both groups non-empty.
ParseMatchAt(text, p) ==
  LET n == Len(text)
      close == {q \in (p + 2)..n : CharAt(text, q) = "]"}
  IN IF p + 1 > n \/ SubSeq(text, p, p + 1) # "[[" \/ close = {} THEN <<>>
     ELSE LET q == Min(close)
              cuts == {j \in (p + 3)..(q - 3) : SubSeq(text, j, j + 1) = "::"}
          IN IF q + 1 > n \/ CharAt(text, q + 1) # "]" \/ cuts = {} THEN <<>>
             ELSE LET j == Min(cuts)
                  IN << [index |-> p,
                         phrase |-> Trim(SubSeq(text, p + 2, j - 1)),
                         meaning |-> Trim(SubSeq(text, j + 2, q - 1)),
                         lastIndex |-> q + 2] >>

\* mutant: the pattern without its g flag, every exec searches from the start
PatternExecFromStart(text, lastIndex) ==
  LET starts == {p \in 1..Len(text) : ParseMatchAt(text, p) # <<>>} IN
  IF starts = {} THEN <<>> ELSE ParseMatchAt(text, Min(starts))

\* pattern.exec(text) with pattern.lastIndex at lastIndex (1-based here):
\* <<>> for null, else the first match at or after it
PatternExec(text, lastIndex) ==
  LET starts == {p \in lastIndex..Len(text) : ParseMatchAt(text, p) # <<>>} IN
  IF starts = {} THEN <<>> ELSE ParseMatchAt(text, Min(starts))

\* what one iteration of the loop pushes for the match m
Pushed(text, lastIndex, m) ==
  (IF m.index > lastIndex
   THEN <<TextSegment(SubSeq(text, lastIndex, m.index - 1))>>
   ELSE <<>>)
  \o <<ExpressionSegment(m.phrase, m.meaning)>>

\* mutant: the text after the last match is not pushed
RemainingDropped(text, lastIndex) == <<>>

\* what is pushed after the loop: the remaining text, when there is some
Remaining(text, lastIndex) ==
  IF lastIndex <= Len(text)
  THEN <<TextSegment(SubSeq(text, lastIndex, Len(text)))>>
  ELSE <<>>

\* parseText from lastIndex on: the iterations of the loop that are left,
\* then the remaining text
RECURSIVE ParseFrom(_, _)
ParseFrom(text, lastIndex) ==
  LET match == PatternExec(text, lastIndex) IN
  IF match = <<>> THEN Remaining(text, lastIndex)
  ELSE Pushed(text, lastIndex, match[1]) \o ParseFrom(text, match[1].lastIndex)

parseText(text) == ParseFrom(text, 1)

\* string conversion of a property value (`'' + undefined` is "undefined")
ToStr(v) == IF v = Undef THEN "undefined" ELSE v

\* JSON.stringify(data, null, 2) of a decoded object without content
Stringify(data) ==
  IF data.type = Undef THEN "{}"
  ELSE "{\n  \"type\": " \o Quote(data.type) \o "\n}"

\* serializeEventContent(value)
serializeEventContent(v) == IF v = Undef THEN "" ELSE v

\* `data.content ?? data`, serialized
ContentOrData(data) ==
  IF data.content # Undef THEN serializeEventContent(data.content)
  ELSE Stringify(data)

ChatEvent(type, content) == [type |-> type, content |-> content]

\* a Message; `by` stands for the timestamp: it names the operation that
\* created the message
Message(role, content, expressions, by) ==
  [role |-> role, content |-> content, expressions |-> expressions, by |-> by]

(***************************************************************************)
(* The frame handlers.  `st` holds what a handler reads and writes: the    *)
(* hook's lists and the operation's local accumulators.  st.frames is the  *)
(* log of the objects JSON.parse has returned to the operation so far.     *)
(***************************************************************************)
\* mutant: the new entry goes to the front of the log
addEventFirst(st, type, content) ==
  [st EXCEPT !.events = <<ChatEvent(type, content)>> \o @]

addEvent(st, type, content) ==
  [st EXCEPT !.events = Append(@, ChatEvent(type, content))]

\* mutant: every chunk shows the text so far as an assistant message
ApplyMessageFrameShowsChunks(st, data, o) ==
  CASE data.type = "thought" ->
         addEvent(st, "thought", serializeEventContent(data.content))
    [] data.type \in {"tool_call", "tool_result", "state_update"} ->
         addEvent(st, data.type, ContentOrData(data))
    [] data.type \in {"assistant_message", "response"} ->
         addEvent(st, "response", ContentOrData(data))
    [] data.type = "chunk" ->
         [st EXCEPT !.acc = @ \o ToStr(data.content),
                    !.exprs = @ \o extractExpressions(ToStr(data.content)),
                    !.messages = Append(@, Message("assistant",
                                                   st.acc \o ToStr(data.content),
                                                   <<>>, o))]
    [] data.type = "done" ->
         LET appended == [st EXCEPT !.messages =
                            Append(@, Message("assistant", st.acc, st.exprs, o))]
             logged == IF st.acc # "" THEN addEvent(appended, "response", st.acc)
                       ELSE appended
         IN [logged EXCEPT !.acc = "", !.exprs = <<>>]
    [] OTHER -> st

\* mutant: a done frame finalizes only a text that is not empty
ApplyMessageFrameSkipsEmptyDone(st, data, o) ==
  CASE data.type = "thought" ->
         addEvent(st, "thought", serializeEventContent(data.content))
    [] data.type \in {"tool_call", "tool_result", "state_update"} ->
         addEvent(st, data.type, ContentOrData(data))
    [] data.type \in {"assistant_message", "response"} ->
         addEvent(st, "response", ContentOrData(data))
    [] data.type = "chunk" ->
         [st EXCEPT !.acc = @ \o ToStr(data.content),
                    !.exprs = @ \o extractExpressions(ToStr(data.content))]
    [] data.type = "done" /\ st.acc # "" ->
         LET appended == [st EXCEPT !.messages =
                            Append(@, Message("assistant", st.acc, st.exprs, o))]
         IN [addEvent(appended, "response", st.acc)
               EXCEPT !.acc = "", !.exprs = <<>>]
    [] OTHER -> st

\* the if/else chain of processStreamResponse on one decoded object
ApplyMessageFrame(st, data, o) ==
  CASE data.type = "thought" ->
         addEvent(st, "thought", serializeEventContent(data.content))
    [] data.type \in {"tool_call", "tool_result", "state_update"} ->
         addEvent(st, data.type, ContentOrData(data))
    [] data.type \in {"assistant_message", "response"} ->
         addEvent(st, "response", ContentOrData(data))
    [] data.type = "chunk" ->
         [st EXCEPT !.acc = @ \o ToStr(data.content),
                    !.exprs = @ \o extractExpressions(ToStr(data.content))]
    [] data.type = "done" ->
         LET appended == [st EXCEPT !.messages =
                            Append(@, Message("assistant", st.acc, st.exprs, o))]
             logged == IF st.acc # "" THEN addEvent(appended, "response", st.acc)
                       ELSE appended
         IN [logged EXCEPT !.acc = "", !.exprs = <<>>]
    [] OTHER -> st

\* one line of the message stream
HandleMessageLine(st, line, o) ==
  IF StartsWith(line, "data: ")
  THEN LET r == JSONParse(Slice(line, 6))
       IN IF r.ok
          THEN ApplyMessageFrame([st EXCEPT !.frames = Append(@, r.value)],
                                 r.value, o)
          ELSE st
  ELSE st

\* mutant: the loop gives up at the first line that JSON.parse rejects
RECURSIVE ProcessMessageLinesStopAtError(_, _, _)
ProcessMessageLinesStopAtError(st, lines, o) ==
  IF lines = <<>> THEN st
  ELSE IF StartsWith(Head(lines), "data: ") /\ ~JSONParse(Slice(Head(lines), 6)).ok
  THEN st
  ELSE ProcessMessageLinesStopAtError(HandleMessageLine(st, Head(lines), o),
                                      Tail(lines), o)

RECURSIVE ProcessMessageLines(_, _, _)
ProcessMessageLines(st, lines, o) ==
  IF lines = <<>> THEN st
  ELSE ProcessMessageLines(HandleMessageLine(st, Head(lines), o), Tail(lines), o)

\* mutant: only a topic that is new to the list is logged
HandleTopicLineLogsNew(st, line) ==
  IF StartsWith(line, "data: ")
  THEN LET r == JSONParse(Slice(line, 6))
           decoded == [st EXCEPT !.frames = Append(@, r.value)]
       IN IF ~r.ok THEN st
          ELSE IF TopicTruthy(r.value.topic)
                    /\ normalizeTopic(r.value.topic) # NullTopic
          THEN LET t == normalizeTopic(r.value.topic)
                   set == [decoded EXCEPT !.topics = setTopicsUpdater(@, t),
                                          !.topic = t]
               IN IF set.topics = st.topics THEN set
                  ELSE addEvent(set, "tool_call", "Selected topic: " \o t.headline)
          ELSE decoded
  ELSE st

\* one line of the topic stream
HandleTopicLine(st, line) ==
  IF StartsWith(line, "data: ")
  THEN LET r == JSONParse(Slice(line, 6))
           decoded == [st EXCEPT !.frames = Append(@, r.value)]
       IN IF ~r.ok THEN st
          ELSE IF TopicTruthy(r.value.topic)
                    /\ normalizeTopic(r.value.topic) # NullTopic
          THEN LET t == normalizeTopic(r.value.topic)
               IN addEvent([decoded EXCEPT !.topics = setTopicsUpdater(@, t),
                                           !.topic = t],
                           "tool_call", "Selected topic: " \o t.headline)
          ELSE decoded
  ELSE st

RECURSIVE ProcessTopicLines(_, _)
ProcessTopicLines(st, lines) ==
  IF lines = <<>> THEN st
  ELSE ProcessTopicLines(HandleTopicLine(st, Head(lines)), Tail(lines))

\* the decoder step of both read loops: append the fragment to the buffer,
\* split on newlines, keep the last piece as the new buffer
DecodeLines(buffer, value) == Front(SplitLines(buffer \o value))

\* mutant: the unfinished line is not carried over to the next fragment
DecodeRestDropped(buffer, value) == ""

DecodeRest(buffer, value) == Last(SplitLines(buffer \o value))

\* mutant: the catch block does not tell an AbortError from a failure
CatchErrorAnyError(err, fallback, cur) ==
  IF err.isError
  THEN (IF err.message # "" THEN err.message ELSE fallback)
  ELSE cur

\* the catch blocks of startTopicChat and sendMessage: the new value of error
CatchError(err, fallback, cur) ==
  IF err.isError /\ err.name # "AbortError"
  THEN (IF err.message # "" THEN err.message ELSE fallback)
  ELSE cur

\* the catch block of startSession
CatchSessionError(err) ==
  IF err.isError THEN err.message ELSE "Failed to start session"

(***************************************************************************)
(* State.                                                                  *)
(***************************************************************************)
VARIABLES
  sessionId,           \* useState: string | null
  variant,             \* useState: string | null
  topic,               \* useState: Topic | null
  topics,              \* useState: Topic[]
  messages,            \* useState: Message[]
  events,              \* useState: ChatEvent[]
  isLoading,           \* useState: boolean
  error,               \* useState: string | null
  abortControllerRef,  \* useRef: the id of an AbortController, 0 for null
  aborted,             \* the AbortControllers whose abort() has been called
  ops,                 \* the asynchronous operations issued so far
  selectedTopic,       \* Chat's useState: Topic | null
  mounted,             \* FALSE once the component has unmounted
  env                  \* the environment of this behaviour: the number of
                       \* operations it issues (ops), how many of them it
                       \* lets overlap (inflight), and whether the transport
                       \* cuts fragments inside a line (cuts)
VARIABLES
  expressionText       \* an ExpressionText component: its text prop, the
                       \* number of tokens the text was made from, the
                       \* segments pushed by its render, the lastIndex
                       \* of the pattern (1-based), and whether it is
                       \* absent ("none"), given its prop ("props"), in
                       \* the loop of parseText ("exec") or rendered
                       \* ("rendered")

vars == <<sessionId, variant, topic, topics, messages, events, isLoading, error,
          abortControllerRef, aborted, ops, selectedTopic, mounted, env, expressionText>>

\* no ExpressionText is on the page
NoExpressionText ==
  [text |-> "", tokens |-> 0, segments |-> <<>>, lastIndex |-> 1,
   pc |-> "none"]

hookState == <<sessionId, variant, topic, topics, messages, events, isLoading, error>>

\* An operation: one call of startSession, startTopicChat or sendMessage
\* that got past its guard.  A streaming operation owns the AbortController
\* with its own index as id.  pc is the await it is suspended at.
NewOp(kind, arg) ==
  [kind |-> kind,            \* "session", "topics" or "message"
   arg |-> arg,              \* the variant, or the message text
   pc |-> "fetch",           \* "fetch", "read" or "settled"
   body |-> "",              \* the part of the response body not yet delivered
   buffer |-> "",            \* let buffer
   assistantContent |-> "",  \* let assistantContent
   extractedExpressions |-> <<>>,
   delivered |-> "",         \* history: the part of the body delivered so far
   frames |-> <<>>,          \* history: the objects decoded so far
   stale |-> FALSE]          \* TRUE once reset() has been called after the call

Ops == 1..Len(ops)

Streaming(o) == ops[o].kind \in {"topics", "message"}
InFlight(o) == ops[o].pc # "settled"

\* the environment may issue one more operation
MayIssue ==
  /\ Len(ops) < env.ops
  /\ Cardinality({o \in Ops : InFlight(o)}) < env.inflight
Cancelled(o) == Streaming(o) /\ o \in aborted

\* the operation at the end of its function: its locals are dead
Settled(o) ==
  [ops EXCEPT ![o].pc = "settled", ![o].body = "",
              ![o].buffer = "", ![o].assistantContent = "",
              ![o].extractedExpressions = <<>>, ![o].delivered = "",
              ![o].frames = <<>>]

\* mutant: the pick follows every topic the hook suggests
SelectedTopicFollows(sel, tp) ==
  IF tp # NullTopic THEN tp ELSE sel

\* Chat's effect on [topic, selectedTopic]: the first topic becomes the pick
SelectedTopicEffect(sel, tp) ==
  IF sel = NullTopic /\ tp # NullTopic THEN tp ELSE sel

Init ==
  /\ sessionId = Null
  /\ variant = Null
  /\ topic = NullTopic
  /\ topics = <<>>
  /\ messages = <<>>
  /\ events = <<>>
  /\ isLoading = FALSE
  /\ error = Null
  /\ abortControllerRef = 0
  /\ aborted = {}
  /\ ops = <<>>
  /\ selectedTopic = NullTopic
  /\ mounted = TRUE
  /\ env = [ops |-> MaxOps, inflight |-> MaxOps, cuts |-> FALSE]
  /\ expressionText = NoExpressionText

(***************************************************************************)
(* startSession                                                            *)
(***************************************************************************)
\* the call, up to `await axios.post`
StartSession(v) ==
  /\ mounted
  /\ MayIssue
  /\ error' = Null
  /\ isLoading' = TRUE
  /\ ops' = Append(ops, NewOp("session", v))
  /\ UNCHANGED <<sessionId, variant, topic, topics, messages, events,
                 abortControllerRef, aborted, selectedTopic, mounted, env, expressionText>>

\* mutant: a new session keeps the messages of the old one
SessionResolvesKeepsMessages(o, sid) ==
  /\ ops[o].kind = "session" /\ ops[o].pc = "fetch"
  /\ sessionId' = sid
  /\ variant' = ops[o].arg
  /\ events' = <<>>
  /\ isLoading' = FALSE
  /\ ops' = Settled(o)
  /\ UNCHANGED <<topic, topics, messages, error, abortControllerRef, aborted,
                 selectedTopic, mounted, env, expressionText>>

\* mutant: a new session starts with no topics
SessionResolvesClearsTopics(o, sid) ==
  /\ ops[o].kind = "session" /\ ops[o].pc = "fetch"
  /\ sessionId' = sid
  /\ variant' = ops[o].arg
  /\ messages' = <<>>
  /\ events' = <<>>
  /\ topics' = <<>>
  /\ topic' = NullTopic
  /\ isLoading' = FALSE
  /\ ops' = Settled(o)
  /\ UNCHANGED <<error, abortControllerRef, aborted,
                 selectedTopic, mounted, env, expressionText>>

\* the request succeeds: the rest of the try block, then finally
SessionResolves(o, sid) ==
  /\ ops[o].kind = "session" /\ ops[o].pc = "fetch"
  /\ sessionId' = sid
  /\ variant' = ops[o].arg
  /\ messages' = <<>>
  /\ events' = <<>>
  /\ isLoading' = FALSE
  /\ ops' = Settled(o)
  /\ UNCHANGED <<topic, topics, error, abortControllerRef, aborted,
                 selectedTopic, mounted, env, expressionText>>

\* the request fails: catch, then finally
SessionRejects(o, err) ==
  /\ ops[o].kind = "session" /\ ops[o].pc = "fetch"
  /\ error' = CatchSessionError(err)
  /\ isLoading' = FALSE
  /\ ops' = Settled(o)
  /\ UNCHANGED <<sessionId, variant, topic, topics, messages, events,
                 abortControllerRef, aborted, selectedTopic, mounted, env, expressionText>>

(***************************************************************************)
(* startTopicChat and sendMessage: the calls                               *)
(***************************************************************************)
\* the statements from setError(null) to `await fetch`, common to both
\* except for the user message
IssueStreaming(kind, arg, msgs) ==
  /\ error' = Null
  /\ isLoading' = TRUE
  /\ messages' = msgs
  /\ abortControllerRef' = Len(ops) + 1
  /\ ops' = Append(ops, NewOp(kind, arg))

startTopicChatBody ==
  IF sessionId = Null
  THEN /\ error' = "No active session"
       /\ UNCHANGED <<messages, isLoading, abortControllerRef, ops>>
  ELSE IssueStreaming("topics", "", messages)

StartTopicChat ==
  /\ mounted
  /\ sessionId # Null => MayIssue
  /\ startTopicChatBody
  /\ UNCHANGED <<sessionId, variant, topic, topics, events, aborted,
                 selectedTopic, mounted, env, expressionText>>

\* mutant: sendMessage without its session guard
sendMessageBodyNoGuard(content) ==
  IssueStreaming("message", content,
                 Append(messages, Message("user", content, <<>>, Len(ops) + 1)))

\* mutant: sendMessage that leaves the user message to the response handling
sendMessageBodyNoAppend(content) ==
  IF sessionId = Null
  THEN /\ error' = "No active session"
       /\ UNCHANGED <<messages, isLoading, abortControllerRef, ops>>
  ELSE IssueStreaming("message", content, messages)

sendMessageBody(content) ==
  IF sessionId = Null
  THEN /\ error' = "No active session"
       /\ UNCHANGED <<messages, isLoading, abortControllerRef, ops>>
  ELSE IssueStreaming("message", content,
                      Append(messages, Message("user", content, <<>>, Len(ops) + 1)))

SendMessage(content) ==
  /\ mounted
  /\ sessionId # Null => MayIssue
  /\ sendMessageBody(content)
  /\ UNCHANGED <<sessionId, variant, topic, topics, events, aborted,
                 selectedTopic, mounted, env, expressionText>>

(***************************************************************************)
(* startTopicChat and sendMessage: the continuations                       *)
(***************************************************************************)
Bodies(kind) ==
  IF kind = "topics" THEN TopicBodies(env.cuts) ELSE MessageBodies(env.cuts)

\* mutant: finally clears the ref and leaves the flag
FinallyLeavesLoading ==
  /\ isLoading' = isLoading
  /\ abortControllerRef' = 0

\* `finally`: both functions clear the flag and the ref, whoever owns them
Finally ==
  /\ isLoading' = FALSE
  /\ abortControllerRef' = 0

\* fetch resolves with a 2xx response that has a body; the operation goes
\* on to its first reader.read()
FetchResolves(o, body) ==
  /\ Streaming(o) /\ ops[o].pc = "fetch" /\ ~Cancelled(o)
  /\ body \in Bodies(ops[o].kind)
  /\ ops' = [ops EXCEPT ![o].pc = "read", ![o].body = body]
  /\ UNCHANGED <<hookState, abortControllerRef, aborted, selectedTopic,
                 mounted, env, expressionText>>

\* what a pending await of a live operation can throw
Failures(o) ==
  IF ops[o].pc = "fetch" THEN {NetworkError, HttpError("500"), NoBodyError}
  ELSE {NetworkError}

Fallback(o) ==
  IF ops[o].kind = "topics" THEN "Failed to start topic chat"
  ELSE "Failed to send message"

\* mutant: a failure takes back the messages of the session
ThrowsDropsMessages(o, err) ==
  /\ error' = CatchError(err, Fallback(o), error)
  /\ Finally
  /\ ops' = Settled(o)
  /\ messages' = <<>>
  /\ UNCHANGED <<sessionId, variant, topic, topics, events, aborted,
                 selectedTopic, mounted, env, expressionText>>

\* mutant: a failure finalizes the text accumulated so far
ThrowsFlushesText(o, err) ==
  /\ error' = CatchError(err, Fallback(o), error)
  /\ Finally
  /\ ops' = Settled(o)
  /\ messages' = IF ops[o].kind = "message" /\ ops[o].assistantContent # ""
                 THEN Append(messages,
                             Message("assistant", ops[o].assistantContent,
                                     ops[o].extractedExpressions, o))
                 ELSE messages
  /\ UNCHANGED <<sessionId, variant, topic, topics, events, aborted,
                 selectedTopic, mounted, env, expressionText>>

\* an await throws `err`: catch, then finally
Throws(o, err) ==
  /\ error' = CatchError(err, Fallback(o), error)
  /\ Finally
  /\ ops' = Settled(o)
  /\ UNCHANGED <<sessionId, variant, topic, topics, messages, events, aborted,
                 selectedTopic, mounted, env, expressionText>>

\* a transport failure: non-2xx status, no body, network error
OperationFails(o, err) ==
  /\ Streaming(o) /\ InFlight(o) /\ ~Cancelled(o)
  /\ err \in Failures(o)
  /\ Throws(o, err)

\* the operation's controller was aborted: its pending await rejects with
\* an AbortError
OperationAborted(o) ==
  /\ Streaming(o) /\ InFlight(o) /\ Cancelled(o)
  /\ Throws(o, AbortError)

\* the handlers' view of the state, and its write-back
MessageView(o) ==
  [messages |-> messages, events |-> events, frames |-> ops[o].frames,
   acc |-> ops[o].assistantContent, exprs |-> ops[o].extractedExpressions]

TopicView(o) ==
  [topics |-> topics, topic |-> topic, events |-> events,
   frames |-> ops[o].frames]

\* mutant: the flush appends a message even when nothing was accumulated
FlushAlways(st, o) ==
  [st EXCEPT !.messages = Append(@, Message("assistant", st.acc, st.exprs, o))]

\* the flush after the loop of processStreamResponse
Flush(st, o) ==
  IF st.acc # ""
  THEN [st EXCEPT !.messages = Append(@, Message("assistant", st.acc, st.exprs, o))]
  ELSE st

\* reader.read() delivers the next k characters of the body: one iteration
\* of the read loop with done = false
ReadFragment(o, k) ==
  /\ Streaming(o) /\ ops[o].pc = "read" /\ ~Cancelled(o)
  /\ env.cuts \/ CharAt(ops[o].body, k) = "\n"
  /\ LET value == SubSeq(ops[o].body, 1, k)
         lines == DecodeLines(ops[o].buffer, value)
         rest == DecodeRest(ops[o].buffer, value)
     IN IF ops[o].kind = "message"
        THEN LET st == ProcessMessageLines(MessageView(o), lines, o)
             IN /\ messages' = st.messages
                /\ events' = st.events
                /\ ops' = [ops EXCEPT ![o].body = Slice(@, k),
                                      ![o].delivered = @ \o value,
                                      ![o].frames = st.frames,
                                      ![o].buffer = rest,
                                      ![o].assistantContent = st.acc,
                                      ![o].extractedExpressions = st.exprs]
                /\ UNCHANGED <<topic, topics, selectedTopic>>
        ELSE LET st == ProcessTopicLines(TopicView(o), lines)
             IN /\ topics' = st.topics
                /\ topic' = st.topic
                /\ events' = st.events
                /\ selectedTopic' = SelectedTopicEffect(selectedTopic, st.topic)
                /\ ops' = [ops EXCEPT ![o].body = Slice(@, k),
                                      ![o].delivered = @ \o value,
                                      ![o].frames = st.frames,
                                      ![o].buffer = rest]
                /\ UNCHANGED messages
  /\ UNCHANGED <<sessionId, variant, isLoading, error, abortControllerRef,
                 aborted, mounted, env, expressionText>>

\* reader.read() reports the end of the body: the last iteration of the
\* loop (the decoder gets no value), the flush, the return, then finally
ReadDone(o) ==
  /\ Streaming(o) /\ ops[o].pc = "read" /\ ~Cancelled(o)
  /\ ops[o].body = ""
  /\ LET lines == DecodeLines(ops[o].buffer, "")
     IN IF ops[o].kind = "message"
        THEN LET st == Flush(ProcessMessageLines(MessageView(o),
                                                 lines, o), o)
             IN /\ messages' = st.messages
                /\ events' = st.events
                /\ UNCHANGED <<topic, topics, selectedTopic>>
        ELSE LET st == ProcessTopicLines(TopicView(o), lines)
             IN /\ topics' = st.topics
                /\ topic' = st.topic
                /\ events' = st.events
                /\ selectedTopic' = SelectedTopicEffect(selectedTopic, st.topic)
                /\ UNCHANGED messages
  /\ Finally
  /\ ops' = Settled(o)
  /\ UNCHANGED <<sessionId, variant, error, aborted, mounted, env, expressionText>>

(***************************************************************************)
(* reset, unmount                                                          *)
(***************************************************************************)
\* abortControllerRef.current.abort(), when the ref is set
AbortCurrent == IF abortControllerRef # 0 THEN aborted \cup {abortControllerRef}
                ELSE aborted

\* mutant: reset that forgets the event log
ResetKeepsEvents ==
  /\ mounted
  /\ aborted' = AbortCurrent
  /\ sessionId' = Null
  /\ variant' = Null
  /\ topic' = NullTopic
  /\ topics' = <<>>
  /\ messages' = <<>>
  /\ error' = Null
  /\ isLoading' = FALSE
  /\ ops' = [o \in Ops |-> [ops[o] EXCEPT !.stale = TRUE]]
  /\ UNCHANGED <<events, abortControllerRef, selectedTopic, mounted, env, expressionText>>

Reset ==
  /\ mounted
  /\ aborted' = AbortCurrent
  /\ sessionId' = Null
  /\ variant' = Null
  /\ topic' = NullTopic
  /\ topics' = <<>>
  /\ messages' = <<>>
  /\ events' = <<>>
  /\ error' = Null
  /\ isLoading' = FALSE
  /\ ops' = [o \in Ops |-> [ops[o] EXCEPT !.stale = TRUE]]
  /\ UNCHANGED <<abortControllerRef, selectedTopic, mounted, env, expressionText>>

\* the cleanup of the hook's effect
Unmount ==
  /\ mounted
  /\ mounted' = FALSE
  /\ aborted' = AbortCurrent
  /\ UNCHANGED <<hookState, abortControllerRef, ops, selectedTopic, env, expressionText>>

(***************************************************************************)
(* Chat.tsx                                                                *)
(***************************************************************************)
\* The topic buttons are rendered only while selectedTopic is null and topics
\* is not empty.  Every step that adds to topics also sets topic, and the
\* effect on [topic, selectedTopic] then picks it before any click is handled,
\* so the buttons' onClick is never enabled and has no action here.

\* mutant: handleSubmit without the check of the selected topic
HandleSubmitNoTopicCheck(draft) ==
  /\ mounted
  /\ IF Trim(draft) = "" \/ sessionId = Null
     THEN UNCHANGED <<messages, isLoading, error, abortControllerRef, ops>>
     ELSE /\ MayIssue
          /\ sendMessageBody(Trim(draft))
  /\ UNCHANGED <<sessionId, variant, topic, topics, events, aborted,
                 selectedTopic, mounted, env, expressionText>>

\* handleSubmit with `draft` in the text area
HandleSubmit(draft) ==
  /\ mounted
  /\ IF Trim(draft) = "" \/ sessionId = Null \/ selectedTopic = NullTopic
     THEN UNCHANGED <<messages, isLoading, error, abortControllerRef, ops>>
     ELSE /\ MayIssue
          /\ sendMessageBody(Trim(draft))
  /\ UNCHANGED <<sessionId, variant, topic, topics, events, aborted,
                 selectedTopic, mounted, env, expressionText>>

(***************************************************************************)
(* App.tsx, SessionSetup.tsx                                               *)
(***************************************************************************)
\* The click on Retry, shown by SessionSetup while there is no session and
\* error is set: handleRetry calls onClearError, the `clearError` that App
\* takes from useAGUIChat().  The hook returns no such property, so the call
\* is a call of undefined: it throws a TypeError in the event handler, and no
\* state is set.
HandleRetry ==
  /\ mounted
  /\ sessionId = Null /\ error # Null
  /\ UNCHANGED vars

(***************************************************************************)
(* The system.                                                             *)
(***************************************************************************)
Next ==
  \/ \E v \in Variants : StartSession(v)
  \/ \E o \in Ops, sid \in SessionIds : SessionResolves(o, sid)
  \/ \E o \in Ops : SessionRejects(o, AxiosError)
  \/ StartTopicChat
  \/ \E t \in Texts : SendMessage(t)
  \/ \E o \in Ops : \E b \in Bodies(ops[o].kind) : FetchResolves(o, b)
  \/ \E o \in Ops, e \in {NetworkError, HttpError("500"), NoBodyError} :
        OperationFails(o, e)
  \/ \E o \in Ops : OperationAborted(o)
  \/ \E o \in Ops : \E k \in 1..Len(ops[o].body) : ReadFragment(o, k)
  \/ \E o \in Ops : ReadDone(o)
  \/ Reset
  \/ Unmount
  \/ \E d \in Drafts : HandleSubmit(d)
  \/ HandleRetry

Spec == Init /\ [][Next]_vars

\* The continuations of operation i: what the event loop runs when the
\* pending await of the operation resolves or rejects.
Progress(i) ==
  /\ i \in Ops
  /\ \/ \E sid \in SessionIds : SessionResolves(i, sid)
     \/ SessionRejects(i, AxiosError)
     \/ \E b \in Bodies(ops[i].kind) : FetchResolves(i, b)
     \/ \E e \in {NetworkError, HttpError("500"), NoBodyError} : OperationFails(i, e)
     \/ OperationAborted(i)
     \/ \E k \in 1..Len(ops[i].body) : ReadFragment(i, k)
     \/ ReadDone(i)

\* The behaviours in which no pending await stays pending for ever: the
\* request of every operation is answered, fails or is aborted, a body that
\* is being read goes on to its end, and the event loop runs the
\* continuation.
SpecLive == Init /\ [][Next]_vars /\ \A i \in 1..MaxOps : WF_vars(Progress(i))

\* The behaviours that start in the state the hook is in after a first
\* startSession has succeeded, with a transport that cuts the body anywhere.
InitDecode ==
  /\ sessionId = "s1"
  /\ variant = "UK"
  /\ topic = NullTopic
  /\ topics = <<>>
  /\ messages = <<>>
  /\ events = <<>>
  /\ isLoading = FALSE
  /\ error = Null
  /\ abortControllerRef = 0
  /\ aborted = {}
  /\ ops = <<[kind |-> "session", arg |-> "UK", pc |-> "settled", body |-> "",
              buffer |-> "", assistantContent |-> "",
              extractedExpressions |-> <<>>, delivered |-> "",
              frames |-> <<>>, stale |-> FALSE]>>
  /\ selectedTopic = NullTopic
  /\ mounted = TRUE
  /\ env = [ops |-> 1 + MaxDecodeOps, inflight |-> 1, cuts |-> TRUE]
  /\ expressionText = NoExpressionText

SpecDecode == InitDecode /\ [][Next]_vars

(***************************************************************************)
(* The markup on its own: a text made of up to MaxTokens pieces of markup   *)
(* is what the agent answers a message with, in one chunk frame, and what  *)
(* an ExpressionText is given and renders.                                 *)
(***************************************************************************)
\* the pieces a text is made of
Tokens == {"[[", "]]", "::", ":", "a", " "}

\* how many tokens a text of the parser's behaviours holds at most
MaxTokens == 6

\* a session has been started, as in InitDecode
InitParse ==
  /\ sessionId = "s1"
  /\ variant = "UK"
  /\ topic = NullTopic
  /\ topics = <<>>
  /\ messages = <<>>
  /\ events = <<>>
  /\ isLoading = FALSE
  /\ error = Null
  /\ abortControllerRef = 0
  /\ aborted = {}
  /\ ops = <<[NewOp("session", "UK") EXCEPT !.pc = "settled"]>>
  /\ selectedTopic = NullTopic
  /\ mounted = TRUE
  /\ env = [ops |-> 0, inflight |-> 0, cuts |-> FALSE]
  /\ expressionText = [text |-> "", tokens |-> 0, segments |-> <<>>,
                       lastIndex |-> 1, pc |-> "props"]

\* the text prop grows by one token
TextProp(tok) ==
  /\ expressionText.pc = "props" /\ messages = <<>>
  /\ expressionText.tokens < MaxTokens
  /\ expressionText' = [expressionText EXCEPT !.text = @ \o tok,
                                                !.tokens = @ + 1]
  /\ UNCHANGED <<hookState, abortControllerRef, aborted, ops, selectedTopic,
                 mounted, env>>

\* ExpressionText is rendered and calls parseText(text): segments = [],
\* lastIndex = 0 (position 1 here)
ExpressionText ==
  /\ expressionText.pc = "props"
  /\ expressionText' = [expressionText EXCEPT !.segments = <<>>,
                                                !.lastIndex = 1,
                                                !.pc = "exec"]
  /\ UNCHANGED <<hookState, abortControllerRef, aborted, ops, selectedTopic,
                 mounted, env>>

\* one evaluation of the loop condition of parseText: with a match, the
\* body of the loop; with null, the push of the remaining text and the return
WhileExec ==
  /\ expressionText.pc = "exec"
  /\ LET text == expressionText.text
         lastIndex == expressionText.lastIndex
         match == PatternExec(text, lastIndex)
     IN IF match # <<>>
        THEN expressionText' =
               [expressionText EXCEPT
                  !.segments = @ \o Pushed(text, lastIndex, match[1]),
                  !.lastIndex = match[1].lastIndex]
        ELSE expressionText' =
               [expressionText EXCEPT
                  !.segments = @ \o Remaining(text, lastIndex),
                  !.pc = "rendered"]
  /\ UNCHANGED <<hookState, abortControllerRef, aborted, ops, selectedTopic,
                 mounted, env>>

\* the decoded frames of an answer that comes in one chunk
ChunkFrame(content) == Obj("chunk", content, NoTopicField)
DoneFrame == Obj("done", Undef, NoTopicField)

\* sendMessage("hi") runs to its end: the user message is appended, the
\* response body holds one chunk frame with the text and a done frame,
\* processStreamResponse applies the two and flushes, finally clears the flag
AnswerInOneChunk ==
  /\ expressionText.pc = "props" /\ messages = <<>>
  /\ LET o == Len(ops) + 1
         sent == [messages |-> Append(messages, Message("user", "hi", <<>>, o)),
                  events |-> events, frames |-> <<>>, acc |-> "",
                  exprs |-> <<>>]
         chunk == ApplyMessageFrame(sent, ChunkFrame(expressionText.text), o)
         st == Flush(ApplyMessageFrame(chunk, DoneFrame, o), o)
     IN /\ messages' = st.messages
        /\ events' = st.events
        /\ ops' = Append(ops, [NewOp("message", "hi") EXCEPT !.pc = "settled"])
  /\ error' = Null
  /\ Finally
  /\ UNCHANGED <<sessionId, variant, topic, topics, aborted, selectedTopic,
                 mounted, env, expressionText>>

NextParse ==
  \/ \E tok \in Tokens : TextProp(tok)
  \/ AnswerInOneChunk
  \/ ExpressionText
  \/ WhileExec

SpecParse == InitParse /\ [][NextParse]_vars


(***************************************************************************)
(* Properties.                                                             *)
(***************************************************************************)
\* the operation has a step: it is in flight and the step changes its record
\* (for an operation that reset() has already marked, only its own
\* continuations do)
Continues(o) == InFlight(o) /\ ops'[o] # ops[o] /\ ops'[o].stale = ops[o].stale

\* a later streaming operation was started while o was in flight
Superseded(o) == InFlight(o) /\ \E p \in Ops : p > o /\ Streaming(p)

\* the transports that are open and not cancelled
OpenTransports == {o \in Ops : Streaming(o) /\ InFlight(o) /\ ~Cancelled(o)}

AssistantBy(msgs, o) ==
  {i \in 1..Len(msgs) : msgs[i].role = "assistant" /\ msgs[i].by = o}

UserMessage(content, o) == Message("user", content, <<>>, o)

\* C1: at most one streaming transport is open and un-cancelled at a time
\* (starting a streaming operation cancels the one in flight)
C1_AtMostOneOpenTransport == Cardinality(OpenTransports) <= 1

\* C2: a sendMessage that was superseded by a later streaming call adds no
\* assistant message from then on: nothing received on its stream reaches the
\* message list
C2_SupersededCallNeverAnswers ==
  [][\A o \in Ops :
       (ops[o].kind = "message" /\ Superseded(o))
         => Cardinality(AssistantBy(messages', o))
              <= Cardinality(AssistantBy(messages, o))]_vars

\* C3: right after reset(), from any state, sessionId, variant, topic and
\* error are null, topics, messages and events are empty, isLoading is false
C3_ResetClearsEverything ==
  [][Reset => /\ sessionId' = Null /\ variant' = Null
              /\ topic' = NullTopic /\ error' = Null
              /\ topics' = <<>> /\ messages' = <<>> /\ events' = <<>>
              /\ isLoading' = FALSE]_vars

\* C3 witness: reset() was called while an operation was in flight
C3_Witness ==
  \E o \in Ops : ops[o].stale /\ InFlight(o) /\ Streaming(o) /\ sessionId = Null
                   /\ messages = <<>>

\* C4: no step of a streaming operation that was started before reset()
\* changes messages, events, topics, topic or error
C4_StaleOperationsHaveNoEffect ==
  [][\A o \in Ops :
       (Streaming(o) /\ ops[o].stale /\ Continues(o))
         => UNCHANGED <<messages, events, topics, topic, error>>]_vars

\* C5: the response of a startSession that was in flight when reset() was
\* called does not set sessionId or variant
C5_StaleSessionResponseIgnored ==
  [][\A o \in Ops :
       (ops[o].kind = "session" /\ ops[o].stale /\ Continues(o))
         => UNCHANGED <<sessionId, variant>>]_vars

\* C6: the termination of a cancelled operation leaves error as it was
C6_CancellationNeverSetsError ==
  [][\A o \in Ops : OperationAborted(o) => error' = error]_vars

\* C6 witness: a cancelled operation has ended and the error of a rejected
\* call is set
C6_Witness ==
  \E o \in Ops : Cancelled(o) /\ ~InFlight(o) /\ error = "No active session"

\* C7: with sessionId null, startTopicChat() and sendMessage(text) set error
\* to 'No active session' and do nothing else: no operation is issued and
\* messages, events, topics, topic and isLoading are unchanged
C7_NoSessionIsRejected ==
  [][(sessionId = Null /\ (StartTopicChat \/ \E t \in Texts : SendMessage(t)))
       => /\ error' = "No active session"
          /\ UNCHANGED <<messages, events, topics, topic, isLoading, ops,
                         abortControllerRef, aborted, sessionId, variant>>]_vars

\* C7 witness: the precondition error has been set
C7_Witness == sessionId = Null /\ error = "No active session" /\ ops = <<>>

\* C8: sendMessage(text) with an active session appends the user message at
\* the end of messages in the step that issues the request, and every later
\* step other than reset() and a successful startSession keeps it where it is
C8_UserMessageKept ==
  [][/\ \A t \in Texts :
          (sessionId # Null /\ SendMessage(t))
            => /\ messages' = Append(messages, UserMessage(t, Len(ops) + 1))
               /\ ops'[Len(ops) + 1].pc = "fetch"
     /\ (~Reset /\ ~(\E o \in Ops, sid \in SessionIds : SessionResolves(o, sid)))
          => \A i \in 1..Len(messages) :
               messages[i].role = "user"
                 => Len(messages') >= i /\ messages'[i] = messages[i]]_vars

\* C8 witness: the request has failed and the user message is in the list
C8_Witness ==
  \E o \in Ops : /\ ops[o].kind = "message" /\ ~InFlight(o)
                 /\ error = "HTTP 500"
                 /\ messages = <<UserMessage("hi", o)>>

\* C9 (as stated): sendMessage with an active session and no topic received
\* appends no user message and issues no request
C9_SendNeedsTopic ==
  [][\A t \in Texts :
       (sessionId # Null /\ topic = NullTopic /\ topics = <<>> /\ SendMessage(t))
         => UNCHANGED <<messages, ops>>]_vars

\* C9 (amended): handleSubmit with no topic selected appends no user message
\* and issues no request; the hook's sendMessage needs the session alone
C9_SubmitNeedsSelectedTopic ==
  [][/\ \A d \in Drafts :
          (selectedTopic = NullTopic /\ HandleSubmit(d))
            => UNCHANGED <<messages, ops, error, isLoading, abortControllerRef>>
     /\ \A t \in Texts :
          (sessionId # Null /\ SendMessage(t))
            => Len(messages') = Len(messages) + 1 /\ Len(ops') = Len(ops) + 1]_vars

\* C9 witness: a session is active, no topic is selected, and a request
\* could be issued
C9_Witness ==
  sessionId # Null /\ selectedTopic = NullTopic /\ mounted /\ MayIssue

\* what the decoder yields for a text delivered in one piece
RECURSIVE FramesOf(_)
FramesOf(lines) ==
  IF lines = <<>> THEN <<>>
  ELSE LET line == Head(lines)
           r == JSONParse(Slice(line, 6))
       IN (IF StartsWith(line, "data: ") /\ r.ok THEN <<r.value>> ELSE <<>>)
            \o FramesOf(Tail(lines))

\* C10: whatever the fragments, the objects decoded so far are those of the
\* complete lines of the text delivered so far, in order, and the carry-over
\* buffer is the unfinished line
C10_DecodingIgnoresFragmentation ==
  \A o \in Ops :
    (Streaming(o) /\ ops[o].pc = "read")
      => /\ ops[o].frames = FramesOf(Front(SplitLines(ops[o].delivered)))
         /\ ops[o].buffer = Last(SplitLines(ops[o].delivered))

\* C10 witness: one frame has been decoded and the last fragment has ended
\* inside the "data: " prefix of the next frame
C10_Witness ==
  \E o \in Ops :
    /\ ops[o].pc = "read"
    /\ Len(ops[o].frames) = 1
    /\ Len(ops[o].buffer) \in 1..5
    /\ ops[o].delivered # ops[o].buffer

\* a line that holds a frame: the prefix, then a JSON document
IsFrameLine(line) == StartsWith(line, "data: ") /\ JSONParse(Slice(line, 6)).ok

\* C11: when the transport ends with a frame in the carry-over buffer (a last
\* line without newline), the frame is decoded and applied, on the message
\* stream and on the topic stream
C11_FinalLineIsFlushed ==
  [][\A o \in Ops :
       (ReadDone(o) /\ IsFrameLine(ops[o].buffer))
         => IF ops[o].kind = "message"
            THEN LET st == Flush(HandleMessageLine(MessageView(o),
                                                   ops[o].buffer, o), o)
                 IN messages' = st.messages /\ events' = st.events
            ELSE LET st == HandleTopicLine(TopicView(o), ops[o].buffer)
                 IN topics' = st.topics /\ topic' = st.topic
                      /\ events' = st.events]_vars

\* the lines without those that carry the prefix and a payload that is not
\* JSON
RECURSIVE WithoutMalformed(_)
WithoutMalformed(lines) ==
  IF lines = <<>> THEN <<>>
  ELSE (IF StartsWith(Head(lines), "data: ") /\ ~IsFrameLine(Head(lines))
        THEN <<>> ELSE <<Head(lines)>>) \o WithoutMalformed(Tail(lines))

\* what a message operation has made of the stream: the two lists and its
\* accumulators
Applied(st) == <<st.messages, st.events, st.acc, st.exprs>>

AppliedNext(o) ==
  <<messages', events', ops'[o].assistantContent, ops'[o].extractedExpressions>>

\* the step is the read of k characters by operation o (the length of what
\* is left of the body tells k, so the other values of k are set aside
\* before the step is compared with ReadFragment)
Reads(o, k) ==
  /\ ops[o].pc = "read"
  /\ Len(ops'[o].body) + k = Len(ops[o].body)
  /\ ReadFragment(o, k)

\* the lines that reader.read() of operation o hands to the for loop when it
\* delivers k characters
LinesRead(o, k) == DecodeLines(ops[o].buffer, SubSeq(ops[o].body, 1, k))

\* C12: a 'data: ' line whose payload is not JSON changes nothing and leaves
\* error alone, and the lines after it are applied as if it had not been there
C12_MalformedLineIsSkipped ==
  [][\A o \in Ops : \A k \in 1..Len(ops[o].body) :
       (ops[o].kind = "message" /\ Reads(o, k))
         => /\ AppliedNext(o) =
                 Applied(ProcessMessageLines(MessageView(o),
                                             WithoutMalformed(LinesRead(o, k)), o))
            /\ error' = error]_vars

\* C12 witness: the stream began with a line that is not JSON, and the turn
\* after it has been decoded and finalized
C12_Witness ==
  \E o \in Ops :
    /\ ops[o].pc = "read" /\ ops[o].kind = "message"
    /\ StartsWith(ops[o].delivered, Frame(Malformed))
    /\ Len(ops[o].frames) = 2
    /\ messages = <<UserMessage("hi", o), Message("assistant", "A", <<>>, o)>>
    /\ error = Null

\* the frame types of the protocol
FrameTypes ==
  {"thought", "tool_call", "tool_result", "state_update", "assistant_message",
   "response", "chunk", "done"}

\* a frame that violates the protocol: a type outside it, or a chunk whose
\* content is not a string
ViolatesProtocol(data) ==
  data.type \notin FrameTypes \/ (data.type = "chunk" /\ data.content = Undef)

RECURSIVE WithoutViolations(_)
WithoutViolations(lines) ==
  IF lines = <<>> THEN <<>>
  ELSE (IF IsFrameLine(Head(lines))
             /\ ViolatesProtocol(JSONParse(Slice(Head(lines), 6)).value)
        THEN <<>> ELSE <<Head(lines)>>) \o WithoutViolations(Tail(lines))

\* C13: a frame that violates the protocol changes nothing: messages, events,
\* the text accumulator and the expression list come out of every read step
\* as they do without the violating frames
C13_ProtocolViolationChangesNothing ==
  [][\A o \in Ops : \A k \in 1..Len(ops[o].body) :
       (ops[o].kind = "message" /\ Reads(o, k))
         => AppliedNext(o) =
              Applied(ProcessMessageLines(MessageView(o),
                                          WithoutViolations(LinesRead(o, k)), o))]_vars

\* the objects that the step has decoded for operation o, in stream order
NewFrames(o) ==
  SubSeq(ops'[o].frames, Len(ops[o].frames) + 1, Len(ops'[o].frames))

\* The frames of a stream taken one by one in their order: the log entries
\* they make, the texts they finalize, and the text accumulated after them.
\* r.acc is the text accumulated before them.
RECURSIVE InOrder(_, _)
InOrder(r, frames) ==
  IF frames = <<>> THEN r
  ELSE LET f == Head(frames)
           next ==
             CASE f.type = "thought" ->
                    [r EXCEPT !.entries = Append(@, ChatEvent("thought", f.content))]
               [] f.type = "chunk" -> [r EXCEPT !.acc = @ \o f.content]
               [] f.type = "done" ->
                    [r EXCEPT !.contents = Append(@, r.acc),
                              !.entries = IF r.acc # ""
                                          THEN Append(@, ChatEvent("response", r.acc))
                                          ELSE @,
                              !.acc = ""]
               [] OTHER -> r
       IN InOrder(next, Tail(frames))

\* C14: frames are applied in stream order.  In every read step of a message
\* stream whose frames keep to the protocol, the log grows by the entries of
\* the new frames in their order, and each done frame appends one assistant
\* message whose content is the concatenation, in order, of the chunk contents
\* since the previous done frame
C14_FramesAppliedInOrder ==
  [][\A o \in Ops : \A k \in 1..Len(ops[o].body) :
       (/\ ops[o].kind = "message" /\ Reads(o, k)
        /\ \A i \in 1..Len(NewFrames(o)) : ~ViolatesProtocol(NewFrames(o)[i]))
         => LET r == InOrder([acc |-> ops[o].assistantContent,
                              contents |-> <<>>, entries |-> <<>>], NewFrames(o))
            IN /\ events' = events \o r.entries
               /\ ops'[o].assistantContent = r.acc
               /\ Len(messages') = Len(messages) + Len(r.contents)
               /\ SubSeq(messages', 1, Len(messages)) = messages
               /\ \A i \in 1..Len(r.contents) :
                    LET m == messages'[Len(messages) + i]
                    IN m.role = "assistant" /\ m.content = r.contents[i]
                         /\ m.by = o]_vars

\* C14 witness: the stream [thought, chunk A, chunk B, done] has been read to
\* its end: one thought entry, and one assistant message with content "AB"
C14_Witness ==
  \E o \in Ops :
    /\ ops[o].kind = "message" /\ ~InFlight(o)
    /\ messages = <<UserMessage("hi", o), Message("assistant", "AB", <<>>, o)>>
    /\ events = <<ChatEvent("thought", "t"), ChatEvent("response", "AB")>>

\* C15: the expressions of every finalized assistant message are what the
\* markup parser finds in the message's complete content
C15_ExpressionsOfFinalizedText ==
  \A i \in 1..Len(messages) :
    messages[i].role = "assistant"
      => messages[i].expressions = extractExpressions(messages[i].content)

\* C16: when the message transport ends, one assistant message with the
\* accumulated text is appended if the accumulator is not empty (no done
\* frame has closed the turn), and the message list is left as it is if the
\* accumulator is empty
C16_FlushAtTransportEnd ==
  [][\A o \in Ops :
       (ops[o].kind = "message" /\ ReadDone(o))
         => messages' =
              IF ops[o].assistantContent # ""
              THEN Append(messages,
                          Message("assistant", ops[o].assistantContent,
                                  ops[o].extractedExpressions, o))
              ELSE messages]_vars

\* C16 witness: the stream [chunk B] has ended without a done frame and the
\* message list holds the one assistant message "B"
C16_Witness ==
  \E o \in Ops :
    /\ ops[o].kind = "message" /\ ~InFlight(o)
    /\ messages = <<UserMessage("hi", o), Message("assistant", "B", <<>>, o)>>
    /\ events = <<>>

\* the step appends an assistant message
AppendsAssistant ==
  \E i \in (Len(messages) + 1)..Len(messages') : messages'[i].role = "assistant"

\* the step of operation o handles a done frame
HandlesDone(o) ==
  \E i \in 1..Len(NewFrames(o)) : NewFrames(o)[i].type = "done"

\* C17: the text in progress is never a Message.  A read step without a done
\* frame leaves the message list as it is; an assistant message is appended
\* only by a step that handles a done frame or by the end of the transport;
\* and an assistant message in the list is never changed
C17_TextInProgressIsNotAMessage ==
  [][/\ \A o \in Ops : \A k \in 1..Len(ops[o].body) :
          (ops[o].kind = "message" /\ Reads(o, k) /\ ~HandlesDone(o))
            => messages' = messages
     /\ AppendsAssistant
          => \E o \in Ops :
               /\ ops[o].kind = "message"
               /\ \/ ReadDone(o)
                  \/ \E k \in 1..Len(ops[o].body) :
                       Reads(o, k) /\ HandlesDone(o)
     /\ \A i \in 1..Len(messages) :
          (messages[i].role = "assistant" /\ Len(messages') >= i)
            => messages'[i] = messages[i]]_vars

\* C17 witness: a chunk has been handled, its text is in the accumulator and
\* the message list holds the user message alone
C17_Witness ==
  \E o \in Ops :
    /\ ops[o].kind = "message" /\ ops[o].pc = "read"
    /\ ops[o].assistantContent = "A"
    /\ messages = <<UserMessage("hi", o)>>

\* the frame types that are forwarded to the event log
EventFrameTypes == {"thought", "tool_call", "tool_result", "state_update", "response"}

\* C18: the event log grows by one entry for each frame of type thought,
\* tool_call, tool_result, state_update or response, of that type, and by
\* nothing for chunk and done frames
C18_OnlyEventFramesAreLogged ==
  [][\A o \in Ops : \A k \in 1..Len(ops[o].body) :
       (ops[o].kind = "message" /\ Reads(o, k))
         => LET logged == SelectSeq(NewFrames(o),
                                    LAMBDA f : f.type \in EventFrameTypes)
            IN /\ Len(events') = Len(events) + Len(logged)
               /\ \A i \in 1..Len(logged) :
                    events'[Len(events) + i].type = logged[i].type]_vars

\* the identity key of a topic: its url when it has one, else its headline
TopicKey(t) == IF t.url # "" THEN t.url ELSE t.headline

\* C19: topic insertion is idempotent on the identity key: a topic whose key
\* is in the list is not inserted again, so no two topics of the list have
\* the same key
C19_NoTwoTopicsWithTheSameKey ==
  \A i, j \in 1..Len(topics) :
    TopicKey(topics[i]) = TopicKey(topics[j]) => i = j

\* the topics of the frames inserted one by one under the rule of the key: a
\* candidate is dropped when a topic with its key is in the list, and only then
RECURSIVE InsertByKey(_, _)
InsertByKey(prev, frames) ==
  IF frames = <<>> THEN prev
  ELSE LET raw == Head(frames).topic
           t == normalizeTopic(raw)
       IN InsertByKey(IF ~TopicTruthy(raw) \/ t = NullTopic THEN prev
                      ELSE IF \E i \in 1..Len(prev) : TopicKey(prev[i]) = TopicKey(t)
                      THEN prev
                      ELSE Append(prev, t),
                      Tail(frames))

\* C20: a candidate topic is dropped only when a topic with the same identity
\* key is in the list; in particular candidates with one headline and
\* different non-empty urls are all appended
C20_DedupByIdentityKey ==
  [][\A o \in Ops : \A k \in 1..Len(ops[o].body) :
       (ops[o].kind = "topics" /\ Reads(o, k))
         => topics' = InsertByKey(topics, NewFrames(o))]_vars

\* the frame carries a topic that normalizeTopic accepts
AcceptedTopic(f) == TopicTruthy(f.topic) /\ normalizeTopic(f.topic) # NullTopic

\* the identity key of the frame's topic is the key of a topic of the list
KnownTopic(f, list) ==
  \E i \in 1..Len(list) : TopicKey(list[i]) = TopicKey(normalizeTopic(f.topic))

\* C21: a topic frame whose identity key is in the topic list changes neither
\* the topic list nor the current topic
C21_KnownTopicIsANoOp ==
  [][\A o \in Ops : \A k \in 1..Len(ops[o].body) :
       (/\ ops[o].kind = "topics" /\ Reads(o, k)
        /\ NewFrames(o) # <<>>
        /\ \A i \in 1..Len(NewFrames(o)) :
             AcceptedTopic(NewFrames(o)[i]) /\ KnownTopic(NewFrames(o)[i], topics))
         => topics' = topics /\ topic' = topic]_vars

\* C22: once a topic is selected, no step other than reset() changes the
\* selected topic, whatever topics arrive on the topic stream
C22_SelectedTopicIsPinned ==
  [][(selectedTopic # NullTopic /\ ~Reset) => selectedTopic' = selectedTopic]_vars

\* C22 witness: a topic is selected and a later frame of the topic stream has
\* suggested another one
C22_Witness ==
  /\ selectedTopic # NullTopic
  /\ topic # NullTopic
  /\ topic # selectedTopic

\* the log entries of the accepted topics among the frames, in their order
RECURSIVE TopicEntries(_)
TopicEntries(frames) ==
  IF frames = <<>> THEN <<>>
  ELSE (IF AcceptedTopic(Head(frames))
        THEN <<ChatEvent("tool_call",
                         "Selected topic: " \o normalizeTopic(Head(frames).topic).headline)>>
        ELSE <<>>) \o TopicEntries(Tail(frames))

\* C23: the topic stream logs one tool_call entry for each frame whose topic
\* normalization accepts, in stream order, and frames whose topic is absent
\* or has no non-empty headline add no entry and no topic
C23_AcceptedTopicsAreLogged ==
  [][\A o \in Ops : \A k \in 1..Len(ops[o].body) :
       (ops[o].kind = "topics" /\ Reads(o, k))
         => /\ events' = events \o TopicEntries(NewFrames(o))
            /\ (\A i \in 1..Len(NewFrames(o)) : ~AcceptedTopic(NewFrames(o)[i]))
                 => topics' = topics /\ topic' = topic]_vars

\* C23 witness: a frame without topic, a topic without headline and the topic
\* T1 have been decoded: one topic, one entry
C23_Witness ==
  \E o \in Ops :
    /\ ops[o].kind = "topics" /\ ops[o].pc = "read"
    /\ Len(ops[o].frames) = 3
    /\ ~AcceptedTopic(ops[o].frames[1]) /\ ~AcceptedTopic(ops[o].frames[2])
    /\ topics = <<Topic("T1", "", "")>>
    /\ events = <<ChatEvent("tool_call", "Selected topic: T1")>>

\* C24: when the request of startSession(variant) succeeds, sessionId is the
\* returned id, variant the requested one, and messages and events are empty;
\* when it fails, sessionId, variant, messages, events and topics are
\* unchanged and error is the failure message; isLoading is false either way
C24_StartSessionOutcome ==
  [][\A o \in Ops :
       /\ \A sid \in SessionIds :
            SessionResolves(o, sid)
              => /\ sessionId' = sid /\ variant' = ops[o].arg
                 /\ messages' = <<>> /\ events' = <<>>
                 /\ isLoading' = FALSE /\ ~InFlight(o)'
       /\ SessionRejects(o, AxiosError)
            => /\ UNCHANGED <<sessionId, variant, messages, events, topics>>
               /\ error' = AxiosError.message
               /\ isLoading' = FALSE /\ ~InFlight(o)']_vars

\* C24 witness: a second startSession has succeeded after a message was sent
\* in the first session, and the message list is empty
C24_Witness ==
  \E o, p \in Ops :
    /\ o < p
    /\ ops[o].kind = "message" /\ ~ops[o].stale
    /\ ops[p].kind = "session" /\ ~InFlight(p)
    /\ sessionId = "s1" /\ variant = "UK"
    /\ messages = <<>> /\ error = Null

\* the transport failures: a non-2xx status, a response without body, a
\* network error
TransportFailures == {NetworkError, HttpError("500"), NoBodyError}

\* C25: a transport failure of startTopicChat or sendMessage sets error to
\* the failure message and ends the operation, and leaves messages, events
\* and topics as they were
C25_FailureKeepsCommittedState ==
  [][\A o \in Ops : \A e \in TransportFailures :
       OperationFails(o, e)
         => /\ error' = e.message
            /\ ~InFlight(o)'
            /\ UNCHANGED <<messages, events, topics>>]_vars

\* C25 witness: the topic stream has failed after its first topic: the error
\* is set and the topic and its log entry are there
C25_Witness ==
  \E o \in Ops :
    /\ ops[o].kind = "topics" /\ ~InFlight(o)
    /\ error = "Failed to fetch"
    /\ topics = <<Topic("T1", "", "")>>
    /\ events = <<ChatEvent("tool_call", "Selected topic: T1")>>

\* the step is a successful startSession
SessionSucceeds == \E o \in Ops, sid \in SessionIds : SessionResolves(o, sid)

\* C26: every step other than reset() and a successful startSession leaves
\* the old messages, events and topics as a prefix of the new ones
C26_ListsAreMonotonic ==
  [][(~Reset /\ ~SessionSucceeds)
       => /\ IsPrefix(messages, messages')
          /\ IsPrefix(events, events')
          /\ IsPrefix(topics, topics')]_vars

\* C26 witness: the topic stream has appended a second topic and a second
\* log entry
C26_Witness ==
  /\ topics = <<Topic("T1", "", ""), Topic("T2", "BBC", "u2")>>
  /\ Len(events) = 2

\* every operation issued so far has settled
AllSettled == \A o \in Ops : ~InFlight(o)

\* C27: whenever all issued operations have settled isLoading is false, and
\* every operation that is issued settles in the end
C27_NoOrphanedLoadingFlag ==
  /\ [](AllSettled => isLoading = FALSE)
  /\ \A i \in 1..MaxOps :
       (i \in Ops /\ InFlight(i)) ~> (i \in Ops /\ ~InFlight(i))

\* C27 witness: three operations have been issued, all have settled, the
\* last one by a failure, and isLoading is false
C27_Witness ==
  /\ Len(ops) = 3 /\ AllSettled
  /\ error = "HTTP 500"
  /\ isLoading = FALSE

\* C28: whenever error is set, the interface offers a step that sets error to
\* null and changes nothing else: the session, the topics, the messages, the
\* events and the loading flag stay, and no operation is issued
C28_ErrorClearableOnItsOwn ==
  (mounted /\ error # Null)
    => ENABLED (/\ Next
                /\ error' = Null
                /\ Len(ops') = Len(ops)
                /\ UNCHANGED <<sessionId, variant, topic, topics, messages,
                               events, isLoading>>)


\* C29: parsing the empty string yields exactly one text segment, with empty
\* content
C29_EmptyTextIsOneEmptySegment ==
  (expressionText.pc = "rendered" /\ expressionText.text = "")
    => /\ Len(expressionText.segments) = 1
       /\ expressionText.segments[1].type = "text"
       /\ expressionText.segments[1].content = ""

\* a well-formed marker lies somewhere in the text: "[[", a non-empty phrase,
\* "::", a non-empty meaning and "]]", with no "]" in the phrase or the meaning
HasMarker(text) ==
  \E p, j, q \in 1..(Len(text) - 1) :
    /\ SubSeq(text, p, p + 1) = "[["
    /\ p + 3 <= j /\ SubSeq(text, j, j + 1) = "::"
    /\ j + 3 <= q /\ SubSeq(text, q, q + 1) = "]]"
    /\ \A i \in (p + 2)..(q - 1) : CharAt(text, i) # "]"

\* C30: a text with no well-formed marker parses to exactly one text segment,
\* whose content is the whole text
C30_NoMarkerIsOneTextSegment ==
  (expressionText.pc = "rendered" /\ ~HasMarker(expressionText.text))
    => /\ Len(expressionText.segments) = 1
       /\ expressionText.segments[1].type = "text"
       /\ expressionText.segments[1].content = expressionText.text


\* the places of "::" in x
Delimiters(x) == {j \in 1..(Len(x) - 1) : SubSeq(x, j, j + 1) = "::"}

\* the text is one marker and nothing else: "[[", a body without "]" whose
\* first "::" has text on both sides, and "]]"
IsOneMarker(text) ==
  /\ Len(text) >= 8
  /\ SubSeq(text, 1, 2) = "[[" /\ SubSeq(text, Len(text) - 1, Len(text)) = "]]"
  /\ LET x == SubSeq(text, 3, Len(text) - 2)
     IN /\ \A i \in 1..Len(x) : CharAt(x, i) # "]"
        /\ Delimiters(x) # {}
        /\ Min(Delimiters(x)) >= 2 /\ Min(Delimiters(x)) + 2 <= Len(x)

\* the body of such a marker split at its first "::", both sides trimmed
SplitAtFirst(text) ==
  LET x == SubSeq(text, 3, Len(text) - 2)
      j == Min(Delimiters(x))
  IN [phrase |-> Trim(SubSeq(x, 1, j - 1)),
      meaning |-> Trim(SubSeq(x, j + 2, Len(x)))]

\* the assistant messages of the list
Assistant(msgs) == SelectSeq(msgs, LAMBDA m : m.role = "assistant")

\* C31 (parser): a text that is one marker renders as one expression segment
\* whose phrase is the text before the first "::" and whose meaning is all
\* that follows it
C31_ParserSplitsAtFirstDelimiter ==
  (expressionText.pc = "rendered" /\ IsOneMarker(expressionText.text))
    => /\ Len(expressionText.segments) = 1
       /\ expressionText.segments[1].type = "expression"
       /\ expressionText.segments[1].expression = SplitAtFirst(expressionText.text)

\* C31: the first "::" of a marker is the split point, in the segments of the
\* parser and in the expressions of the assistant message finalized from the
\* same text
C31_FirstDelimiterSplits ==
  /\ C31_ParserSplitsAtFirstDelimiter
  /\ (Assistant(messages) # <<>> /\ IsOneMarker(expressionText.text))
       => Assistant(messages)[1].expressions = <<SplitAtFirst(expressionText.text)>>


\* s has no white space at either end
IsTrimmed(s) == s = "" \/ (~IsSpace(CharAt(s, 1)) /\ ~IsSpace(CharAt(s, Len(s))))

\* C32: the phrase and the meaning of every expression segment, and of every
\* expression attached to an assistant message, have no white space at
\* either end
C32_ExpressionsAreTrimmed ==
  /\ \A i \in 1..Len(expressionText.segments) :
       expressionText.segments[i].type = "expression"
         => /\ IsTrimmed(expressionText.segments[i].content)
            /\ IsTrimmed(expressionText.segments[i].expression.phrase)
            /\ IsTrimmed(expressionText.segments[i].expression.meaning)
  /\ \A i \in 1..Len(messages) : \A k \in 1..Len(messages[i].expressions) :
       /\ IsTrimmed(messages[i].expressions[k].phrase)
       /\ IsTrimmed(messages[i].expressions[k].meaning)

\* the agent's text "[[ a::a]]" has been finalized into a message and
\* rendered: both report the phrase "a" and the meaning "a"
C32_Witness ==
  /\ expressionText.pc = "rendered"
  /\ expressionText.text = "[[ a::a]]"
  /\ expressionText.segments = <<ExpressionSegment("a", "a")>>
  /\ Assistant(messages) # <<>>
  /\ Assistant(messages)[1].expressions = <<[phrase |-> "a", meaning |-> "a"]>>


\* the piece of input is a marker that reports the expression e: "[[", a
\* body without "]", "]]", and a "::" of the body with e's phrase before it and
\* e's meaning after it, up to white space at the ends
IsMarkerOf(piece, e) ==
  /\ Len(piece) >= 8
  /\ SubSeq(piece, 1, 2) = "[[" /\ SubSeq(piece, Len(piece) - 1, Len(piece)) = "]]"
  /\ LET x == SubSeq(piece, 3, Len(piece) - 2)
     IN /\ \A i \in 1..Len(x) : CharAt(x, i) # "]"
        /\ \E j \in Delimiters(x) :
             /\ j >= 2 /\ j + 2 <= Len(x)
             /\ Trim(SubSeq(x, 1, j - 1)) = e.phrase
             /\ Trim(SubSeq(x, j + 2, Len(x))) = e.meaning

\* the text is the segments' pieces of input one after the other: the content
\* of a text segment, a marker of an expression segment
RECURSIVE Reconstructs(_, _)
Reconstructs(segments, text) ==
  IF segments = <<>> THEN text = ""
  ELSE LET s == Head(segments) IN
       IF s.type = "text"
       THEN /\ Len(s.content) <= Len(text)
            /\ SubSeq(text, 1, Len(s.content)) = s.content
            /\ Reconstructs(Tail(segments), Slice(text, Len(s.content)))
       ELSE \E n \in 8..Len(text) :
              /\ IsMarkerOf(SubSeq(text, 1, n), s.expression)
              /\ Reconstructs(Tail(segments), Slice(text, n))

\* C33: the segments of a rendered text, in their order, are the input cut
\* into pieces: nothing dropped, nothing repeated
C33_ParsingIsLossless ==
  expressionText.pc = "rendered"
    => Reconstructs(expressionText.segments, expressionText.text)

\* a marker with text on both sides has been rendered as three segments
C33_Witness ==
  /\ expressionText.pc = "rendered"
  /\ Len(expressionText.segments) = 3
  /\ expressionText.segments[1].type = "text"
  /\ expressionText.segments[2].type = "expression"
  /\ expressionText.segments[3].type = "text"


\* C34: the loops over the matches end on every text.  A match of either
\* pattern ends after the place it starts at, and an iteration of parseText's
\* loop that finds a match moves lastIndex forward, to the end of the text at
\* most: the scan position strictly increases, so the iterations are fewer
\* than the characters
C34_ScanPositionIncreases ==
  /\ [](\A p \in 1..Len(expressionText.text) :
          /\ ParseMatchAt(expressionText.text, p) # <<>>
               => ParseMatchAt(expressionText.text, p)[1].lastIndex > p
          /\ MatchAt(expressionText.text, p) # <<>>
               => MatchAt(expressionText.text, p)[1].next > p)
  /\ [][(expressionText.pc = "exec" /\ expressionText'.pc = "exec"
                                   /\ expressionText' # expressionText)
          => /\ expressionText'.lastIndex > expressionText.lastIndex
             /\ expressionText'.lastIndex <= Len(expressionText.text) + 1]_vars

\* a text of unbalanced and repeated brackets and delimiters in which the
\* loop has found a marker and goes on with the rest
C34_Witness ==
  /\ expressionText.pc = "exec"
  /\ expressionText.text = "[[[[::::]]]]"
  /\ expressionText.lastIndex = 11


\* C35: abortControllerRef holds the controller of every streaming operation
\* that is in flight and not aborted, and it is null only when no streaming
\* operation is in flight
C35_HandleOfTheRunningOperation ==
  /\ \A o \in OpenTransports : abortControllerRef = o
  /\ abortControllerRef = 0
       => \A o \in Ops : ~(Streaming(o) /\ InFlight(o))

\* C35 (in particular): a step that settles one operation leaves the handle
\* of another operation that is still running where it is
C35_CompletionKeepsOtherHandle ==
  [][\A o \in OpenTransports :
       (abortControllerRef = o /\ InFlight(o)' /\ ops'[o] = ops[o]
          /\ Len(ops') = Len(ops))
         => abortControllerRef' = o]_vars


\* C36: isLoading is true while an operation issued since the last reset is
\* in flight
C36_LoadingWhileInFlight ==
  \A o \in Ops : (InFlight(o) /\ ~ops[o].stale) => isLoading = TRUE


\* the phrase/meaning pairs of the expression segments, in their order
ExpressionsOf(segments) ==
  LET found == SelectSeq(segments, LAMBDA s : s.type = "expression")
  IN [i \in 1..Len(found) |-> found[i].expression]

\* C37: the expressions of an assistant message finalized from one chunk frame
\* are the expressions of the segments that ExpressionText renders for the
\* content of the message
C37_ExtractorAgreesWithParser ==
  (expressionText.pc = "rendered" /\ Assistant(messages) # <<>>)
    => /\ Assistant(messages)[1].content = expressionText.text
       /\ expressionText.segments = parseText(expressionText.text)
       /\ Assistant(messages)[1].expressions
            = ExpressionsOf(expressionText.segments)


\* the number of done frames among the frames
DoneCount(frames) == Cardinality({i \in 1..Len(frames) : frames[i].type = "done"})

\* C38: when the stream of a sendMessage ends normally, the assistant
\* messages it has appended are as many as the done frames it has handled,
\* and one more when text was accumulated after the last of them
C38_OneMessagePerDoneFrame ==
  [][\A o \in Ops :
       (ops[o].kind = "message" /\ ~ops[o].stale /\ ReadDone(o))
         => Cardinality(AssistantBy(messages', o))
              = DoneCount(ops[o].frames)
                  + (IF ops[o].assistantContent # "" THEN 1 ELSE 0)]_vars

\* the stream [done, chunk B] has ended: the done frame without a chunk left
\* an assistant message with empty content, the end of the stream one with "B"
C38_Witness ==
  \E o \in Ops :
    /\ ops[o].kind = "message" /\ ~InFlight(o)
    /\ messages = <<UserMessage("hi", o), Message("assistant", "", <<>>, o),
                    Message("assistant", "B", <<>>, o)>>


\* C39: a network error on a read of the message stream, with text
\* accumulated since the last done frame, sets error, ends the operation and
\* drops that text: the message list stays as it is, the user message and the
\* assistant messages already finalized included, and the operation that has
\* ended appends nothing later
C39_FailureDiscardsTextInProgress ==
  [][\A o \in Ops :
       /\ (ops[o].kind = "message" /\ ops[o].pc = "read"
             /\ ops[o].assistantContent # "" /\ OperationFails(o, NetworkError))
            => /\ messages' = messages
               /\ error' = NetworkError.message
               /\ ~InFlight(o)'
               /\ ops'[o].assistantContent = ""
       /\ (ops[o].kind = "message" /\ ~InFlight(o))
            => AssistantBy(messages', o) \subseteq AssistantBy(messages, o)]_vars

\* the stream [done, chunk B] has been read up to the chunk: the list holds
\* the user message and the message of the done frame, "B" is accumulated,
\* and the next read can fail
C39_Witness ==
  \E o \in Ops :
    /\ ops[o].kind = "message" /\ ops[o].pc = "read"
    /\ ops[o].assistantContent = "B"
    /\ messages = <<UserMessage("hi", o), Message("assistant", "", <<>>, o)>>
    /\ ENABLED OperationFails(o, NetworkError)


\* C40: a startSession that succeeds leaves topics, the current topic and the
\* cancellation handle alone, at its call and at its response, and aborts
\* nothing: the streaming operations in flight stay as they are
C40_StartSessionKeepsTopics ==
  [][/\ (\E v \in Variants : StartSession(v))
          => UNCHANGED <<sessionId, variant, messages, events, topics, topic,
                         abortControllerRef, aborted>>
     /\ \A o \in Ops : \A sid \in SessionIds :
          SessionResolves(o, sid)
            => /\ UNCHANGED <<topics, topic, error, abortControllerRef, aborted>>
               /\ \A p \in OpenTransports :
                    ops'[p] = ops[p] /\ p \notin aborted']_vars

\* a session was started, its topics were asked for, and a second
\* startSession has succeeded: the topic of the first request is listed and
\* current in the new session
C40_Witness ==
  /\ Len(ops) = 3
  /\ ops[1].kind = "session" /\ ops[2].kind = "topics" /\ ops[3].kind = "session"
  /\ \A o \in Ops : ~InFlight(o) /\ ~ops[o].stale
  /\ sessionId = "s1" /\ error = Null
  /\ topics = <<Topic("T1", "", "")>> /\ topic = Topic("T1", "", "")
  /\ messages = <<>> /\ events = <<>>

=============================================================================
